---- MODULE Spec2Model ----
(***************************************************************************)
(* mergelog: merging a directory of changelog fragments into one changelog *)
(* (src/src/main.rs).  Text is modelled as a sequence of one-character     *)
(* strings, so that trimming, prefix stripping, number parsing and         *)
(* formatting and the byte-wise ordering of String are computed, not       *)
(* assumed.                                                                *)
(***************************************************************************)
EXTENDS Integers, Sequences, FiniteSets

(***************************************************************************)
(* Bounds of the model.                                                    *)
(***************************************************************************)
\* the largest number of *.md files in the changelog directory
MaxFragments == 2
\* the largest number of lines the operator types while one fragment is resolved
MaxReads == 3
\* the largest catalog the guesser is run on
MaxCatalog == 6

(***************************************************************************)
(* Text.                                                                   *)
(***************************************************************************)
None == <<>>
Some(x) == <<x>>

\* The characters the model uses, in ascending order of their (ASCII) byte.
AsciiOrder ==
  << "\n", " ", "!", "#", "(", ")", "+", "-", ".", "/",
     "0", "1", "2", "3", "4", "5", "6", "7", "8", "9", ":",
     "A", "B", "F", "S", "[", "]", "_",
     "a", "b", "c", "d", "e", "f", "g", "h", "i", "k", "l", "m", "n", "o",
     "p", "q", "r", "s", "t", "u", "x", "y", "{", "}" >>

ByteRank == [c \in {AsciiOrder[k] : k \in 1..Len(AsciiOrder)} |->
               CHOOSE k \in 1..Len(AsciiOrder) : AsciiOrder[k] = c]

\* Ord for String: lexicographic on bytes; -1, 0, 1 for Less, Equal, Greater.
RECURSIVE StrCmp(_, _)
StrCmp(a, b) ==
  IF a = <<>> THEN (IF b = <<>> THEN 0 ELSE -1)
  ELSE IF b = <<>> THEN 1
  ELSE IF a[1] = b[1] THEN StrCmp(Tail(a), Tail(b))
  ELSE IF ByteRank[a[1]] < ByteRank[b[1]] THEN -1 ELSE 1

IsWhitespace(c) == c \in {" ", "\n"}

RECURSIVE TrimStart(_)
TrimStart(s) ==
  IF s # <<>> /\ IsWhitespace(s[1]) THEN TrimStart(Tail(s)) ELSE s

RECURSIVE TrimEnd(_)
TrimEnd(s) ==
  IF s # <<>> /\ IsWhitespace(s[Len(s)])
  THEN TrimEnd(SubSeq(s, 1, Len(s) - 1)) ELSE s

\* str::trim
Trim(s) == TrimEnd(TrimStart(s))

StartsWith(s, p) == Len(p) <= Len(s) /\ SubSeq(s, 1, Len(p)) = p

\* str::strip_prefix
StripPrefix(s, p) ==
  IF StartsWith(s, p) THEN Some(SubSeq(s, Len(p) + 1, Len(s))) ELSE None

\* str::replace: every non-overlapping match, left to right
RECURSIVE Replace(_, _, _)
Replace(s, from, to) ==
  IF Len(s) < Len(from) THEN s
  ELSE IF StartsWith(s, from)
       THEN to \o Replace(SubSeq(s, Len(from) + 1, Len(s)), from, to)
       ELSE <<s[1]>> \o Replace(Tail(s), from, to)

Digits == <<"0", "1", "2", "3", "4", "5", "6", "7", "8", "9">>
IsDigit(c) == \E d \in 1..10 : Digits[d] = c
DigitValue(c) == (CHOOSE d \in 1..10 : Digits[d] = c) - 1

RECURSIVE DigitsValue(_)
DigitsValue(s) ==
  IF s = <<>> THEN 0
  ELSE 10 * DigitsValue(SubSeq(s, 1, Len(s) - 1)) + DigitValue(s[Len(s)])

\* str::parse::<u64>: an optional "+", then one or more decimal digits.  (File
\* stems of the model are short, so the value always fits 64 bits and the
\* overflow error of parse is not reached.)
ParseU64(s) ==
  LET body == IF s # <<>> /\ s[1] = "+" THEN Tail(s) ELSE s
  IN IF body # <<>> /\ \A k \in 1..Len(body) : IsDigit(body[k])
     THEN Some(DigitsValue(body)) ELSE None

\* u64::to_string: decimal, no sign, no leading zero
RECURSIVE ToString(_)
ToString(n) ==
  IF n < 10 THEN <<Digits[n + 1]>>
  ELSE ToString(n \div 10) \o <<Digits[(n % 10) + 1]>>

(***************************************************************************)
(* Text constants.                                                         *)
(***************************************************************************)
StrFixed == <<"F", "i", "x", "e", "d">>
StrFixedLower == <<"f", "i", "x", "e", "d">>
StrAdded == <<"A", "d", "d", "e", "d">>
StrSecurity == <<"S", "e", "c", "u", "r", "i", "t", "y">>
StrY == <<"y">>
StrN == <<"n">>
StrBang == <<"!">>
StrDash == <<"-">>

\* the repository https://gitlab.com/o/r, as parse_owner_and_name splits it
RepoOwner == <<"o">>
RepoName == <<"r">>

\* fn default_config_format: "{item} ({link_name})"
DefaultConfigFormat ==
  << "{", "i", "t", "e", "m", "}", " ", "(",
     "{", "l", "i", "n", "k", "_", "n", "a", "m", "e", "}", ")" >>

\* a format of a mergelog.toml that uses the three tokens main substitutes
TokenFormat ==
  << "{", "i", "t", "e", "m", "}", " ",
     "{", "l", "i", "n", "k", "_", "s", "h", "o", "r", "t", "}", " ",
     "{", "l", "i", "n", "k", "}" >>

TokItem == <<"{", "i", "t", "e", "m", "}">>
TokLinkShort == <<"{", "l", "i", "n", "k", "_", "s", "h", "o", "r", "t", "}">>
TokLink == <<"{", "l", "i", "n", "k", "}">>

(***************************************************************************)
(* The Request Catalog.                                                    *)
(***************************************************************************)
\* PullRequest::try_from_gitlab: the shorthand link is "!" and the iid
TryFromGitlab(iid, title) ==
  [id |-> iid, link |-> StrBang \o ToString(iid), title |-> title]

\* the catalogs fetch_merge_requests may return
Catalogs ==
  { <<>>,
    << TryFromGitlab(42, <<"F", "i", "x", " ", "b", "u", "g">>),
       TryFromGitlab(7, <<"A", "d", "d", " ", "x">>) >> }

(***************************************************************************)
(* Fragments: the *.md files of the changelog directory.  contents is the  *)
(* sequence of nodes that descendants() yields for the parsed document:    *)
(* headings (with their children), list items (with the markdown that      *)
(* format_commonmark gives back for them) and every other node.            *)
(***************************************************************************)
Text(t) == [kind |-> "Text", text |-> t]
Emph == [kind |-> "Emph", text |-> <<>>]
Heading(level, children) ==
  [kind |-> "Heading", level |-> level, children |-> children, markdown |-> <<>>]
Item(markdown) ==
  [kind |-> "Item", level |-> 0, children |-> <<>>, markdown |-> markdown]
Paragraph ==
  [kind |-> "Paragraph", level |-> 0, children |-> <<>>, markdown |-> <<>>]

FragmentPool ==
  { [name |-> <<"4", "2">>,
     contents |-> << Heading(2, <<Text(StrFixedLower)>>),
                     Item(<<"-", " ", "f", "\n">>),
                     Heading(2, <<Text(StrFixed)>>),
                     Item(<<"-", " ", "a", "\n">>) >>],
    [name |-> <<"9", "9">>,
     contents |-> << Item(<<"-", " ", "b", "\n">>),
                     Heading(3, <<Text(<<" ">>), Text(StrFixed \o <<" ">>)>>),
                     Item(<<"-", " ", "c", "\n">>) >>],
    [name |-> <<"f", "i", "x">>,
     contents |-> << Heading(2, <<Text(StrFixedLower)>>),
                     Item(<<"-", " ", "d", "\n">>),
                     Paragraph,
                     Heading(2, <<Text(StrSecurity)>>),
                     Item(<<"-", " ", "e", "\n">>) >>],
    [name |-> <<"0", "7">>,
     contents |-> << Heading(2, <<Text(StrAdded)>>),
                     Item(<<"-", " ", "h", "\n">>),
                     Heading(2, <<Text(StrAdded), Emph>>),
                     Item(<<"-", " ", "k", "\n">>) >>] }

\* the directories: at most MaxFragments files (file names are unique)
Directories == {d \in SUBSET FragmentPool : Cardinality(d) <= MaxFragments}

\* the values of -s/--section (main refuses an empty list)
SectionOrders ==
  { <<StrAdded, StrFixed>>, <<StrFixedLower, StrSecurity, StrFixed>> }

\* without a mergelog.toml: the default format and no short links; with one:
\* its format and its short-links
Configs ==
  { [format |-> DefaultConfigFormat, short_links |-> FALSE],
    [format |-> TokenFormat, short_links |-> TRUE] }

\* the lines the operator types, as read_line appends them to the buffer
InputLines ==
  { <<"\n">>, <<"y", "\n">>, <<"!", "4", "2", "\n">>, <<"!", "x", "\n">> }

(***************************************************************************)
(* The functions of main.rs.                                               *)
(***************************************************************************)
\* "https://gitlab.com/{repo_owner}/{repo_name}/-/merge_requests/"
MergeRequestsUrl ==
  << "h", "t", "t", "p", "s", ":", "/", "/",
     "g", "i", "t", "l", "a", "b", ".", "c", "o", "m", "/" >>
  \o RepoOwner \o <<"/">> \o RepoName
  \o << "/", "-", "/", "m", "e", "r", "g", "e", "_",
        "r", "e", "q", "u", "e", "s", "t", "s", "/" >>

\* (mutant) the full link is built from the shorthand instead of the id
MakePullRequestLinkOfShorthand(id, link) ==
  [shorthand |-> link, full |-> MergeRequestsUrl \o link]

\* fn make_pull_request_link, for RepositoryHost::GitLab.  (fetch_merge_requests
\* is todo!() for GitHub and main has replaced Infer, so no other host gets
\* as far as resolving a link.)
MakePullRequestLink(id, link) ==
  [shorthand |-> link, full |-> MergeRequestsUrl \o id]

\* pull_requests.iter().find(|pr| pr.id == id): its index, 0 for None
FindPullRequest(prs, id) ==
  IF \E k \in 1..Len(prs) : prs[k].id = id
  THEN CHOOSE k \in 1..Len(prs) :
         prs[k].id = id /\ \A j \in 1..(k - 1) : prs[j].id # id
  ELSE 0

\* the validate closures of the prompts
ValidateYesNo(value) == value \in {StrY, StrN}
ValidateNonEmpty(value) == value # <<>>

\* the call of the closure a prompt was given
Validate(validate, value) ==
  IF validate = "yes_no" THEN ValidateYesNo(value) ELSE ValidateNonEmpty(value)

\* fn prompt: one iteration of its loop, from read_line on.  read_line appends
\* the line to buffer, which the loop never clears; the trimmed buffer is
\* what is tested and returned.
PromptRead(buffer, line, validate, default) ==
  LET read == buffer \o line
      trimmed == Trim(read)
  IN IF trimmed = <<>> /\ default # None
     THEN [returned |-> TRUE, value |-> default[1], buffer |-> read]
     ELSE IF Validate(validate, trimmed)
          THEN [returned |-> TRUE, value |-> trimmed, buffer |-> read]
          ELSE [returned |-> FALSE, value |-> <<>>, buffer |-> read]

\* str::to_lowercase, for the letters of the model
UpperCase == <<"A", "B", "F", "S">>
LowerCase == <<"a", "b", "f", "s">>
ToLowercase(s) ==
  [k \in 1..Len(s) |->
     IF \E u \in 1..Len(UpperCase) : UpperCase[u] = s[k]
     THEN LowerCase[CHOOSE u \in 1..Len(UpperCase) : UpperCase[u] = s[k]]
     ELSE s[k]]

\* str::contains
Contains(s, sub) ==
  \E k \in 1..(Len(s) - Len(sub) + 1) : SubSeq(s, k, k + Len(sub) - 1) = sub

\* str::split_ascii_whitespace: the maximal runs of other characters
RECURSIVE SplitAsciiWhitespace(_)
SplitAsciiWhitespace(s) ==
  LET t == TrimStart(s)
      n == IF \E k \in 1..Len(t) : IsWhitespace(t[k])
           THEN (CHOOSE k \in 1..Len(t) :
                   IsWhitespace(t[k]) /\ \A j \in 1..(k - 1) : ~IsWhitespace(t[j])) - 1
           ELSE Len(t)
  IN IF t = <<>> THEN <<>>
     ELSE <<SubSeq(t, 1, n)>> \o SplitAsciiWhitespace(SubSeq(t, n + 1, Len(t)))

Min3(x, y, z) ==
  IF x <= y /\ x <= z THEN x ELSE IF y <= z THEN y ELSE z

\* one row of the Levenshtein table: from the row of a prefix of a to the row
\* of that prefix and the character c
RECURSIVE FillRow(_, _, _, _)
FillRow(prev, c, b, acc) ==
  IF Len(acc) = Len(b) + 1 THEN acc
  ELSE LET j == Len(acc)
       IN FillRow(prev, c, b,
                  Append(acc, Min3(prev[j + 1] + 1, acc[j] + 1,
                                   prev[j] + (IF b[j] = c THEN 0 ELSE 1))))

RECURSIVE LevRows(_, _, _)
LevRows(a, b, row) ==
  IF a = <<>> THEN row[Len(b) + 1]
  ELSE LevRows(Tail(a), b, FillRow(row, a[1], b, <<row[1] + 1>>))

\* edit_distance::edit_distance: the Levenshtein distance
EditDistance(a, b) == LevRows(a, b, [j \in 1..(Len(b) + 1) |-> j - 1])

\* the contribution of one word of pr.title
WordDistance(word, title, name) ==
  IF Contains(ToLowercase(name), ToLowercase(word)) /\ Len(word) > 1
  THEN Len(title) * 10
  ELSE EditDistance(title, name)

RECURSIVE SumDistances(_, _, _)
SumDistances(words, title, name) ==
  IF words = <<>> THEN 0
  ELSE WordDistance(words[1], title, name) + SumDistances(Tail(words), title, name)

\* the cost of a request, distance / normalizer, kept as the pair of the two
\* integers.  (Both are small, so the f64 quotients compare as the fractions do.)
Cost(pr, name) ==
  LET words == SplitAsciiWhitespace(pr.title)
  IN <<SumDistances(words, pr.title, name),
       IF words = <<>> THEN 1 ELSE Len(pr.title)>>

\* (mutant) the costs are compared without .reverse()
CompareCostsAscending(lhs, rhs) ==
  IF lhs[1] * rhs[2] < rhs[1] * lhs[2] THEN -1
  ELSE IF lhs[1] * rhs[2] > rhs[1] * lhs[2] THEN 1 ELSE 0

\* lhs.1.partial_cmp(&rhs.1).reverse(): -1 when lhs is the greater cost
CompareCosts(lhs, rhs) ==
  IF lhs[1] * rhs[2] > rhs[1] * lhs[2] THEN -1
  ELSE IF lhs[1] * rhs[2] < rhs[1] * lhs[2] THEN 1 ELSE 0

\* costs.sort_by, a stable sort of the pairs (index, cost)
RECURSIVE InsertCost(_, _)
InsertCost(x, sorted) ==
  IF sorted = <<>> THEN <<x>>
  ELSE IF CompareCosts(x[2], sorted[1][2]) = -1 THEN <<x>> \o sorted
  ELSE <<sorted[1]>> \o InsertCost(x, Tail(sorted))

RECURSIVE SortCosts(_)
SortCosts(costs) ==
  IF costs = <<>> THEN <<>>
  ELSE InsertCost(costs[Len(costs)], SortCosts(SubSeq(costs, 1, Len(costs) - 1)))

\* .take(5)
GuessLimit == 5

\* fn guess_pull_request: None for an empty catalog, else the requests of the
\* first GuessLimit costs
GuessPullRequest(name, prs) ==
  LET costs == SortCosts([k \in 1..Len(prs) |-> <<k, Cost(prs[k], name)>>])
      n == IF Len(costs) < GuessLimit THEN Len(costs) ELSE GuessLimit
  IN IF costs = <<>> THEN None
     ELSE Some([k \in 1..n |-> prs[costs[k][1]]])

\* the host's shorthand syntax: full_link.strip_prefix("!")
ShorthandId(full_link) == StripPrefix(full_link, StrBang)

\* a heading all of whose children are text runs
HeadingSupported(node) ==
  \A k \in 1..Len(node.children) : node.children[k].kind = "Text"

\* heading_string: the text of the heading's children, pushed in order
RECURSIVE HeadingString(_)
HeadingString(children) ==
  IF children = <<>> THEN <<>>
  ELSE children[1].text \o HeadingString(Tail(children))

\* (mutant) the key is the heading's text as it stands
SectionKeyUntrimmed(node) == HeadingString(node.children)

\* the key of a heading's bucket: heading_string.trim()
SectionKey(node) == Trim(HeadingString(node.children))

\* sections.get(key): the index of the bucket of that key, 0 for None
BucketIndex(map, key) ==
  IF \E k \in 1..Len(map) : map[k].key = key
  THEN CHOOSE k \in 1..Len(map) : map[k].key = key
  ELSE 0

\* sections.entry(key).or_insert((level, vec![])).1.push(entry)
PushEntry(map, key, level, entry) ==
  LET k == BucketIndex(map, key)
  IN IF k = 0
     THEN Append(map, [key |-> key, level |-> level, contents |-> <<entry>>])
     ELSE [map EXCEPT ![k].contents = Append(@, entry)]

\* the comparison of contents.sort_by: lhs.1.shorthand.cmp(&rhs.1.shorthand)
CompareEntries(lhs, rhs) == StrCmp(lhs[2].shorthand, rhs[2].shorthand)

\* (mutant) an unstable sort: an entry goes before the equal ones
RECURSIVE InsertEntryBeforeEqual(_, _)
InsertEntryBeforeEqual(x, sorted) ==
  IF sorted = <<>> THEN <<x>>
  ELSE IF CompareEntries(x, sorted[1]) # 1 THEN <<x>> \o sorted
  ELSE <<sorted[1]>> \o InsertEntryBeforeEqual(x, Tail(sorted))

RECURSIVE InsertEntry(_, _)
InsertEntry(x, sorted) ==
  IF sorted = <<>> THEN <<x>>
  ELSE IF CompareEntries(x, sorted[1]) = -1 THEN <<x>> \o sorted
  ELSE <<sorted[1]>> \o InsertEntry(x, Tail(sorted))

\* slice::sort_by, a stable sort: each entry goes behind the equal ones before it
RECURSIVE SortBy(_)
SortBy(contents) ==
  IF contents = <<>> THEN <<>>
  ELSE InsertEntry(contents[Len(contents)],
                   SortBy(SubSeq(contents, 1, Len(contents) - 1)))

\* println!("{} {}", "#".repeat(level), section)
HeadingLine(level, name) == [k \in 1..level |-> "#"] \o <<" ">> \o name

\* the item of an entry: trimmed, one leading "-" stripped, trimmed again
ItemText(content) ==
  LET item == Trim(content)
      stripped == StripPrefix(item, StrDash)
  IN Trim(IF stripped = None THEN item ELSE stripped[1])

\* println!("- {}", format.replace(..).replace(..).replace(..))
EntryLine(fmt, entry) ==
  <<"-", " ">> \o
  Replace(Replace(Replace(fmt, TokLinkShort, entry[2].shorthand),
                  TokLink, entry[2].full),
          TokItem, ItemText(entry[1]))

RECURSIVE EntryLines(_, _)
EntryLines(fmt, contents) ==
  IF contents = <<>> THEN <<>>
  ELSE <<EntryLine(fmt, contents[1])>> \o EntryLines(fmt, Tail(contents))

\* the (shorthand, full) pairs the loop over a section's contents inserts
LinkPairs(contents) ==
  {<<contents[k][2].shorthand, contents[k][2].full>> : k \in 1..Len(contents)}

\* (mutant) the pairs are compared by their shorthand alone
PairLessByShorthand(a, b) == StrCmp(a[1], b[1]) = -1

\* Ord for (String, String): by the first component, then by the second
PairLess(a, b) ==
  \/ StrCmp(a[1], b[1]) = -1
  \/ StrCmp(a[1], b[1]) = 0 /\ StrCmp(a[2], b[2]) = -1

RECURSIVE InsertPair(_, _)
InsertPair(x, sorted) ==
  IF sorted = <<>> THEN <<x>>
  ELSE IF PairLess(x, sorted[1]) THEN <<x>> \o sorted
  ELSE <<sorted[1]>> \o InsertPair(x, Tail(sorted))

\* (mutant) the list is printed as the set yields it
SortPairsOmitted(list) == list

\* short_links_list.sort()
RECURSIVE SortPairs(_)
SortPairs(list) ==
  IF list = <<>> THEN <<>>
  ELSE InsertPair(list[Len(list)], SortPairs(SubSeq(list, 1, Len(list) - 1)))

\* short_links_set.into_iter().collect(): the set in any order of iteration
IterationOrders(set) ==
  {l \in [1..Cardinality(set) -> set] :
     \A a, b \in 1..Cardinality(set) : a # b => l[a] # l[b]}

\* println!("[{link}]: {full_link}")
DefinitionLine(pair) == <<"[">> \o pair[1] \o <<"]", ":", " ">> \o pair[2]

RECURSIVE DefinitionLines(_)
DefinitionLines(list) ==
  IF list = <<>> THEN <<>>
  ELSE <<DefinitionLine(list[1])>> \o DefinitionLines(Tail(list))

(***************************************************************************)
(* The state of a run of main, and of the run before it.                   *)
(***************************************************************************)
VARIABLES
  pull_requests,       \* the Request Catalog fetch_merge_requests returned
  changelog_directory, \* the *.md files of opts.changelog_directory
  section,             \* opts.section
  format,              \* the format template
  short_links,         \* whether short links are emitted
  pc,                  \* where main is
  remaining,           \* the files read_dir has not yielded yet
  file,                \* the file being processed
  pos,                 \* the next node of its document
  buffer,              \* the buffer of the prompt in progress
  typed,               \* the lines read from standard input for this file
  full_link,           \* what the link prompt returned
  link,                \* the Link resolved for this file
  current_section,     \* Option<(String, u8)>
  sections,            \* the HashMap, as the list of its (key, value) pairs
  i,                   \* the index of the section loop
  short_links_set,     \* the HashSet of (shorthand, full)
  stdout,              \* the lines printed to standard output
  stderr,              \* the messages printed to standard error
  run,                 \* 1 for the first run, 2 for a second run of the same command
  order,               \* the file stems in the order read_dir yielded them
  answers,             \* per file stem, the lines the operator typed for it
  prev_stdout,         \* standard output of the first run
  prev_order           \* order of the first run

config == <<pull_requests, changelog_directory, section, format, short_links>>
progress == <<pc, remaining, file, pos, order>>
resolver == <<buffer, typed, full_link, link, stderr, answers>>
aggregator == <<current_section, sections>>
renderer == <<i, short_links_set, stdout>>
history == <<run, prev_stdout, prev_order>>
vars == <<config, progress, resolver, aggregator, renderer, history>>

NoFile == [name |-> <<>>, contents |-> <<>>]
NoLink == [shorthand |-> <<>>, full |-> <<>>]

\* main up to the loop over the directory: nothing processed, nothing printed
Start ==
  /\ pc = "read_dir"
  /\ remaining = changelog_directory
  /\ file = NoFile
  /\ pos = 0
  /\ buffer = <<>>
  /\ typed = 0
  /\ full_link = <<>>
  /\ link = NoLink
  /\ current_section = None
  /\ sections = <<>>
  /\ i = 0
  /\ short_links_set = {}
  /\ stdout = <<>>
  /\ stderr = <<>>
  /\ order = <<>>

Init ==
  /\ pull_requests \in Catalogs
  /\ changelog_directory \in Directories
  /\ section \in SectionOrders
  /\ \E c \in Configs : format = c.format /\ short_links = c.short_links
  /\ Start
  /\ run = 1
  /\ answers = [f \in {d.name : d \in changelog_directory} |-> <<>>]
  /\ prev_stdout = <<>>
  /\ prev_order = <<>>

(***************************************************************************)
(* The Link Resolver: fn resolve_changelog_pr_interactive.                 *)
(***************************************************************************)
Say(kind, text) == <<kind, text>>

\* the next entry of read_dir is f, an *.md file, which is read
Take(f) ==
  /\ pc = "read_dir"
  /\ f \in remaining
  /\ remaining' = remaining \ {f}
  /\ file' = f
  /\ order' = Append(order, f.name)
  /\ typed' = 0
  /\ buffer' = <<>>
  /\ full_link' = <<>>
  /\ UNCHANGED <<config, aggregator, renderer, history, answers>>

\* the name is a number and the catalog has a request of that id
ResolveKnownId(f) ==
  /\ Take(f)
  /\ ParseU64(f.name) # None
  /\ LET id == ParseU64(f.name)[1]
         k == FindPullRequest(pull_requests, id)
     IN /\ k # 0
        /\ stderr' = Append(stderr, Say("processing", pull_requests[k].link))
        /\ link' = MakePullRequestLink(ToString(id), pull_requests[k].link)
        /\ pc' = "parse"
        /\ pos' = 1

\* the name is a number the catalog does not have: the y/n prompt is shown
ResolveUnknownId(f) ==
  /\ Take(f)
  /\ ParseU64(f.name) # None
  /\ FindPullRequest(pull_requests, ParseU64(f.name)[1]) = 0
  /\ stderr' = Append(stderr, Say("ask_ok", <<>>))
  /\ pc' = "confirm"
  /\ UNCHANGED <<link, pos>>

\* "help: Is it one of:" and a line "{link}: {title}" for every guessed request
Hints(guessed_prs) ==
  IF guessed_prs = None THEN <<>>
  ELSE <<Say("help", <<>>)>> \o
       [k \in 1..Len(guessed_prs[1]) |->
          Say("guess", guessed_prs[1][k].link \o <<":", " ">> \o guessed_prs[1][k].title)]

\* the name is no number: the fragment is shown, then the guesses, and the link
\* prompt is shown
ResolveByName(f) ==
  /\ Take(f)
  /\ ParseU64(f.name) = None
  /\ stderr' = stderr \o <<Say("cannot_determine", f.name)>>
                 \o Hints(GuessPullRequest(f.name, pull_requests))
                 \o <<Say("ask_link", <<>>)>>
  /\ pc' = "ask_link"
  /\ UNCHANGED <<link, pos>>

\* fs::read_to_string fails for the next entry f: main returns the error, no
\* contents were read and the resolver is not called
ReadToStringFails(f) ==
  /\ pc = "read_dir"
  /\ f \in remaining
  /\ remaining' = remaining \ {f}
  /\ pc' = "failed"
  /\ stderr' = Append(stderr, Say("io_error", f.name))
  /\ UNCHANGED <<config, file, pos, order, buffer, typed, full_link, link, answers,
                 aggregator, renderer, history>>

\* read_line (or a flush) of a prompt fails: prompt, the resolver and main
\* return the error
ReadLineFails ==
  /\ pc \in {"confirm", "ask_link", "ask_shorthand"}
  /\ pc' = "failed"
  /\ stderr' = Append(stderr, Say("input_error", file.name))
  /\ UNCHANGED <<config, remaining, file, pos, order, buffer, typed, full_link,
                 link, answers, aggregator, renderer, history>>

\* read_line: the operator types a line (the first run), or types what was
\* typed for this file in the first run (the second run)
ReadLine(line) ==
  /\ typed' = typed + 1
  /\ IF run = 1
     THEN /\ typed < MaxReads
          /\ answers' = [answers EXCEPT ![file.name] = Append(@, line)]
     ELSE /\ typed < Len(answers[file.name])
          /\ line = answers[file.name][typed + 1]
          /\ UNCHANGED answers

\* one iteration of the y/n prompt (default "y")
ReadConfirmation ==
  /\ pc = "confirm"
  /\ \E line \in InputLines :
       /\ ReadLine(line)
       /\ LET r == PromptRead(buffer, line, "yes_no", Some(StrY))
          IN /\ buffer' = r.buffer
             /\ IF r.returned
                THEN /\ stderr' = Append(stderr, Say("processing", r.value))
                     /\ link' = MakePullRequestLink(
                                  ToString(ParseU64(file.name)[1]), r.value)
                     /\ pc' = "parse"
                     /\ pos' = 1
                ELSE /\ stderr' = Append(stderr, Say("ask_ok", <<>>))
                     /\ UNCHANGED <<link, pc, pos>>
  /\ UNCHANGED <<config, remaining, file, order, full_link, aggregator,
                 renderer, history>>

\* one iteration of the link prompt (non-empty, no default)
ReadLink ==
  /\ pc = "ask_link"
  /\ \E line \in InputLines :
       /\ ReadLine(line)
       /\ LET r == PromptRead(buffer, line, "non_empty", None)
          IN IF r.returned
             THEN /\ full_link' = r.value
                  /\ IF ShorthandId(r.value) # None
                     THEN /\ link' = MakePullRequestLink(
                                       ShorthandId(r.value)[1], r.value)
                          /\ stderr' = Append(stderr, Say("processing", r.value))
                          /\ buffer' = r.buffer
                          /\ pc' = "parse"
                          /\ pos' = 1
                     ELSE /\ stderr' = stderr \o <<Say("processing", r.value),
                                                   Say("ask_shorthand", <<>>)>>
                          /\ buffer' = <<>>
                          /\ pc' = "ask_shorthand"
                          /\ UNCHANGED <<link, pos>>
             ELSE /\ buffer' = r.buffer
                  /\ stderr' = Append(stderr, Say("ask_link", <<>>))
                  /\ UNCHANGED <<full_link, link, pc, pos>>
  /\ UNCHANGED <<config, remaining, file, order, aggregator, renderer, history>>

\* one iteration of the shorthand prompt (non-empty, no default)
ReadShorthand ==
  /\ pc = "ask_shorthand"
  /\ \E line \in InputLines :
       /\ ReadLine(line)
       /\ LET r == PromptRead(buffer, line, "non_empty", None)
          IN /\ buffer' = r.buffer
             /\ IF r.returned
                THEN /\ link' = [shorthand |-> r.value, full |-> full_link]
                     /\ pc' = "parse"
                     /\ pos' = 1
                     /\ UNCHANGED stderr
                ELSE /\ stderr' = Append(stderr, Say("ask_shorthand", <<>>))
                     /\ UNCHANGED <<link, pc, pos>>
  /\ UNCHANGED <<config, remaining, file, order, full_link, aggregator,
                 renderer, history>>

(***************************************************************************)
(* The Changelog Parser and the Section Aggregator: the loop of main over  *)
(* the descendants of the parsed document.                                 *)
(***************************************************************************)
Node == file.contents[pos]

Parsing ==
  /\ pc = "parse"
  /\ pos <= Len(file.contents)
  /\ pos' = pos + 1
  /\ UNCHANGED <<config, pc, remaining, file, order, resolver, renderer, history>>

\* NodeValue::Heading whose children are all NodeValue::Text
ParseHeading ==
  /\ Parsing
  /\ Node.kind = "Heading"
  /\ HeadingSupported(Node)
  /\ current_section' = Some(<<SectionKey(Node), Node.level>>)
  /\ UNCHANGED sections

\* (mutant) a heading with another child is skipped and the walk goes on
ParseHeadingUnsupportedSkipped ==
  /\ pc = "parse"
  /\ pos <= Len(file.contents)
  /\ file.contents[pos].kind = "Heading"
  /\ ~HeadingSupported(file.contents[pos])
  /\ pos' = pos + 1
  /\ UNCHANGED <<config, pc, remaining, file, order, resolver, aggregator,
                 renderer, history>>

\* NodeValue::Heading with another child: todo!() panics
ParseHeadingUnsupported ==
  /\ pc = "parse"
  /\ pos <= Len(file.contents)
  /\ Node.kind = "Heading"
  /\ ~HeadingSupported(Node)
  /\ pc' = "panicked"
  /\ UNCHANGED <<config, remaining, file, pos, order, resolver, aggregator,
                 renderer, history>>

\* NodeValue::Item: pushed to the bucket of current_section, if there is one
ParseItem ==
  /\ Parsing
  /\ Node.kind = "Item"
  /\ sections' =
       IF current_section # None
       THEN PushEntry(sections, current_section[1][1], current_section[1][2],
                      <<Node.markdown, link>>)
       ELSE sections
  /\ UNCHANGED current_section

\* any other node
ParseOther ==
  /\ Parsing
  /\ Node.kind \notin {"Heading", "Item"}
  /\ UNCHANGED aggregator

\* the document is exhausted: on to the next entry of read_dir
FragmentDone ==
  /\ pc = "parse"
  /\ pos > Len(file.contents)
  /\ pc' = "read_dir"
  /\ file' = NoFile
  /\ UNCHANGED <<config, remaining, pos, order, resolver, aggregator, renderer,
                 history>>

(***************************************************************************)
(* The Renderer: the loop of main over opts.section, and the short links.  *)
(***************************************************************************)
\* read_dir is exhausted
StartRender ==
  /\ pc = "read_dir"
  /\ remaining = {}
  /\ pc' = "render"
  /\ i' = 0
  /\ UNCHANGED <<config, remaining, file, pos, order, resolver, aggregator,
                 short_links_set, stdout, history>>

\* println!() of every iteration but the first
Separator == IF i > 0 THEN <<<<>>>> ELSE <<>>

\* an iteration whose section has a bucket
RenderSection ==
  /\ pc = "render"
  /\ i < Len(section)
  /\ LET name == section[i + 1]
         k == BucketIndex(sections, name)
     IN /\ k # 0
        /\ LET contents == SortBy(sections[k].contents)
           IN /\ sections' = [sections EXCEPT ![k].contents = contents]
              /\ stdout' = stdout \o Separator
                             \o <<HeadingLine(sections[k].level, name)>>
                             \o EntryLines(format, contents)
              /\ short_links_set' =
                   IF short_links
                   THEN short_links_set \cup LinkPairs(contents)
                   ELSE short_links_set
  /\ i' = i + 1
  /\ UNCHANGED <<config, progress, resolver, current_section, history>>

\* (mutant) a section without a bucket still gets its heading
SkipSectionWithHeading ==
  /\ pc = "render"
  /\ i < Len(section)
  /\ BucketIndex(sections, section[i + 1]) = 0
  /\ stdout' = stdout \o Separator \o <<HeadingLine(2, section[i + 1])>>
  /\ i' = i + 1
  /\ UNCHANGED <<config, progress, resolver, aggregator, short_links_set, history>>

\* an iteration whose section has no bucket
SkipSection ==
  /\ pc = "render"
  /\ i < Len(section)
  /\ BucketIndex(sections, section[i + 1]) = 0
  /\ stdout' = stdout \o Separator
  /\ i' = i + 1
  /\ UNCHANGED <<config, progress, resolver, aggregator, short_links_set, history>>

\* the blank line and the definitions of the short links, sorted
PrintShortLinks ==
  /\ pc = "render"
  /\ i = Len(section)
  /\ short_links_set # {}
  /\ \E short_links_list \in IterationOrders(short_links_set) :
       stdout' = stdout \o <<<<>>>> \o DefinitionLines(SortPairs(short_links_list))
  /\ pc' = "done"
  /\ UNCHANGED <<config, remaining, file, pos, order, resolver, aggregator, i,
                 short_links_set, history>>

\* no short link was recorded: Ok(())
Finish ==
  /\ pc = "render"
  /\ i = Len(section)
  /\ short_links_set = {}
  /\ pc' = "done"
  /\ UNCHANGED <<config, remaining, file, pos, order, resolver, aggregator,
                 renderer, history>>

(***************************************************************************)
(* The same command is run a second time, on the same directory, catalog   *)
(* and options; the operator answers for each file as in the first run.    *)
(***************************************************************************)
Rerun ==
  /\ pc = "done"
  /\ run = 1
  /\ run' = 2
  /\ prev_stdout' = stdout
  /\ prev_order' = order
  /\ pc' = "read_dir"
  /\ remaining' = changelog_directory
  /\ file' = NoFile
  /\ pos' = 0
  /\ buffer' = <<>>
  /\ typed' = 0
  /\ full_link' = <<>>
  /\ link' = NoLink
  /\ current_section' = None
  /\ sections' = <<>>
  /\ i' = 0
  /\ short_links_set' = {}
  /\ stdout' = <<>>
  /\ stderr' = <<>>
  /\ order' = <<>>
  /\ UNCHANGED <<config, answers>>

(***************************************************************************)
(* The guesser on its own: the resolver is called once, for a file whose   *)
(* name is no number, with a catalog of up to MaxCatalog requests and no   *)
(* mergelog.toml.                                                          *)
(***************************************************************************)
\* the titles of the requests
TitlePool ==
  { <<"F", "i", "x", " ", "b", "u", "g">>, <<"A", "d", "d", " ", "x">>,
    <<"b", "u", "g">>, <<" ">> }

\* the catalogs: the k-th request of the host has iid k
GuessCatalogs ==
  UNION { { [k \in 1..n |-> TryFromGitlab(k, t[k])] : t \in [1..n -> TitlePool] }
          : n \in 0..MaxCatalog }

\* the files whose names are no numbers
GuessFragments ==
  { [name |-> <<"f", "i", "x">>, contents |-> <<Item(<<"-", " ", "d", "\n">>)>>],
    [name |-> <<"B", "u", "g">>, contents |-> <<>>] }

GuessInit ==
  /\ pull_requests \in GuessCatalogs
  /\ changelog_directory \in {{f} : f \in GuessFragments}
  /\ section = <<StrAdded, StrFixed>>
  /\ format = DefaultConfigFormat
  /\ short_links = FALSE
  /\ Start
  /\ run = 1
  /\ answers = [f \in {d.name : d \in changelog_directory} |-> <<>>]
  /\ prev_stdout = <<>>
  /\ prev_order = <<>>

GuessNext == \E f \in remaining : ResolveByName(f)

SpecGuess == GuessInit /\ [][GuessNext]_vars

Next ==
  \/ \E f \in remaining : ResolveKnownId(f)
  \/ \E f \in remaining : ResolveUnknownId(f)
  \/ \E f \in remaining : ResolveByName(f)
  \/ \E f \in remaining : ReadToStringFails(f)
  \/ ReadLineFails
  \/ ReadConfirmation
  \/ ReadLink
  \/ ReadShorthand
  \/ ParseHeading
  \/ ParseHeadingUnsupported
  \/ ParseItem
  \/ ParseOther
  \/ FragmentDone
  \/ StartRender
  \/ RenderSection
  \/ SkipSection
  \/ PrintShortLinks
  \/ Finish
  \/ Rerun

Spec == Init /\ [][Next]_vars

(***************************************************************************)
(* Properties.                                                             *)
(***************************************************************************)
Range(seq) == {seq[k] : k \in 1..Len(seq)}

\* the file being processed is named by a number
Numeric == file # NoFile /\ ParseU64(file.name) # None
FileId == ParseU64(file.name)[1]
InCatalog(id) == \E k \in 1..Len(pull_requests) : pull_requests[k].id = id

\* the line read by the step, and what str::trim leaves of it
LineRead == answers'[file.name][typed']
Reading == pc \in {"confirm", "ask_link", "ask_shorthand"} /\ typed' = typed + 1

\* "https://gitlab.com/o/r/-/merge_requests/<id>"
MergeRequestUrlOf(id) == MergeRequestsUrl \o ToString(id)

\* C1: a fragment named by an id the catalog does not have gets the y/n
\* prompt, and when the operator answers it with an empty line, the Link has
\* the shorthand "!<id>" and the full link of merge request <id>.
C1_UnknownIdDefault ==
  ( /\ pc = "parse"
    /\ Numeric
    /\ ~InCatalog(FileId)
    /\ answers[file.name] = << <<"\n">> >> )
  => /\ Say("ask_ok", <<>>) \in Range(stderr)
     /\ link = [shorthand |-> StrBang \o ToString(FileId),
                full |-> MergeRequestUrlOf(FileId)]

\* C2: whatever invalid lines were read before, a prompt that reads a valid
\* line returns that line, trimmed: y or n for the y/n prompt, any non-empty
\* text for the other two.
C2_ValidLineReturns ==
  [][ /\ (Reading /\ pc = "confirm" /\ Trim(LineRead) \in {StrY, StrN})
         => (pc' = "parse" /\ link'.shorthand = Trim(LineRead))
      /\ (Reading /\ pc = "ask_link" /\ Trim(LineRead) # <<>>)
         => (pc' # "ask_link" /\ full_link' = Trim(LineRead))
      /\ (Reading /\ pc = "ask_shorthand" /\ Trim(LineRead) # <<>>)
         => (pc' = "parse" /\ link'.shorthand = Trim(LineRead)) ]_vars

\* the list items of a fragment that come before its first heading (every list
\* item of the pool has a markdown text of its own)
ItemsBeforeHeading(f) ==
  { f.contents[p].markdown : p \in
      { q \in 1..Len(f.contents) :
          /\ f.contents[q].kind = "Item"
          /\ \A h \in 1..q : f.contents[h].kind # "Heading" } }

BucketItems(bucket) == {bucket.contents[k][1] : k \in 1..Len(bucket.contents)}

\* C3: a list item that comes before the first heading of its fragment is in
\* no bucket, whatever was processed before the fragment.
C3_ItemsBeforeHeadingDropped ==
  \A f \in changelog_directory : \A k \in 1..Len(sections) :
    BucketItems(sections[k]) \cap ItemsBeforeHeading(f) = {}

\* C4, as claimed: two runs on the same fragments, catalog, answers and
\* section order print the same output, whatever the order of the directory.
C4_SameOutputAnyOrder ==
  (pc = "done" /\ run = 2) => stdout = prev_stdout

\* C4, amended: two runs on the same fragments, catalog, answers and section
\* order that process the fragments in the same order print the same output.
C4_SameOutputSameOrder ==
  (pc = "done" /\ run = 2 /\ order = prev_order) => stdout = prev_stdout

\* a second run over two fragments in the order of the first has ended, and it
\* printed the definitions of two short links
C4_Witness ==
  /\ pc = "done"
  /\ run = 2
  /\ order = prev_order
  /\ Len(order) = 2
  /\ Cardinality(short_links_set) >= 2

\* the entries of a list whose shorthand is sh, in their order
RECURSIVE EntriesOf(_, _)
EntriesOf(contents, sh) ==
  IF contents = <<>> THEN <<>>
  ELSE (IF contents[1][2].shorthand = sh THEN <<contents[1]>> ELSE <<>>)
       \o EntriesOf(Tail(contents), sh)

Shorthands(contents) == {contents[k][2].shorthand : k \in 1..Len(contents)}

HasBucket(name) == \E k \in 1..Len(sections) : sections[k].key = name
BucketOf(name) == CHOOSE k \in 1..Len(sections) : sections[k].key = name

\* the last n lines of standard output
LastLines(out, n) == SubSeq(out, Len(out) - n + 1, Len(out))

\* C5: the entries printed for a section are the entries of its bucket in
\* ascending byte order of their shorthand, entries of equal shorthand in the
\* order in which they were inserted.
C5_OrderingLaw ==
  [][ (pc = "render" /\ i' = i + 1 /\ HasBucket(section[i + 1])) =>
        LET k == BucketOf(section[i + 1])
            old == sections[k].contents
            new == sections'[k].contents
        IN /\ Len(new) = Len(old)
           /\ \A a, b \in 1..Len(new) :
                a < b => StrCmp(new[a][2].shorthand, new[b][2].shorthand) # 1
           /\ \A sh \in Shorthands(old) \cup Shorthands(new) :
                EntriesOf(new, sh) = EntriesOf(old, sh)
           /\ LastLines(stdout', Len(new)) =
                [n \in 1..Len(new) |-> EntryLine(format, new[n])] ]_vars

\* a section was printed whose bucket got "- c" of 99.md before "- a" of
\* 42.md, and "- a", of the smaller shorthand "!42", is printed first
C5_Witness ==
  /\ pc = "render"
  /\ i > 0
  /\ order = << <<"9", "9">>, <<"4", "2">> >>
  /\ HasBucket(section[i])
  /\ LET contents == sections[BucketOf(section[i])].contents
     IN /\ Len(contents) = 2
        /\ contents[1][1] = <<"-", " ", "a", "\n">>
        /\ contents[1][2].shorthand = <<"!", "4", "2">>
        /\ contents[2][1] = <<"-", " ", "c", "\n">>
        /\ contents[2][2].shorthand = StrY

IsHeadingLine(l) == l # <<>> /\ l[1] = "#"
IsEntryLine(l) == Len(l) >= 2 /\ l[1] = "-" /\ l[2] = " "
IsSectionLine(l) == IsHeadingLine(l) \/ IsEntryLine(l)

\* the heading and the entries of every listed name that has a bucket, in the
\* order of the list
RECURSIVE ListedSections(_)
ListedSections(names) ==
  IF names = <<>> THEN <<>>
  ELSE (IF HasBucket(names[1])
        THEN LET b == sections[BucketOf(names[1])]
             IN <<HeadingLine(b.level, names[1])>>
                  \o [n \in 1..Len(b.contents) |-> EntryLine(format, b.contents[n])]
        ELSE <<>>)
       \o ListedSections(Tail(names))

\* C6: the headings and entries of the finished document are those of the
\* names listed in opts.section that have a bucket, in the order of the list;
\* neither the heading nor an entry of a bucket that is not listed is printed,
\* and a listed name without a bucket gets no heading.
C6_SectionFiltering ==
  pc = "done" =>
    /\ SelectSeq(stdout, IsSectionLine) = ListedSections(section)
    /\ \A k \in 1..Len(sections) :
         sections[k].key \notin Range(section) =>
           /\ HeadingLine(sections[k].level, sections[k].key) \notin Range(stdout)
           /\ \A n \in 1..Len(sections[k].contents) :
                EntryLine(format, sections[k].contents[n]) \notin Range(stdout)
    /\ \A n \in 1..Len(section) :
         ~HasBucket(section[n]) =>
           \A level \in 1..6 : HeadingLine(level, section[n]) \notin Range(stdout)

\* the document is finished with sections "Added", "Fixed" listed: there is a
\* bucket "Security" with entries, a bucket "Fixed", and none for "Added"
C6_Witness ==
  /\ pc = "done"
  /\ section = <<StrAdded, StrFixed>>
  /\ HasBucket(StrSecurity)
  /\ sections[BucketOf(StrSecurity)].contents # <<>>
  /\ HasBucket(StrFixed)
  /\ ~HasBucket(StrAdded)

\* the (shorthand, full) pairs of the entries of the buckets of listed names
RenderedPairs ==
  UNION { {<<sections[k].contents[n][2].shorthand, sections[k].contents[n][2].full>> :
             n \in 1..Len(sections[k].contents)} :
          k \in {j \in 1..Len(sections) : sections[j].key \in Range(section)} }

Orderings(set) ==
  {l \in [1..Cardinality(set) -> set] : \A p \in set : \E n \in DOMAIN l : l[n] = p}

\* C7: with short links enabled and a pair recorded, what follows the sections
\* is one blank line and then one line "[shorthand]: full" for each distinct
\* pair of the rendered entries, in ascending order of shorthand; otherwise
\* nothing follows the sections.
C7_ShortLinkDedup ==
  [][ (pc = "render" /\ pc' = "done") =>
        IF short_links /\ RenderedPairs # {}
        THEN LET n == Cardinality(RenderedPairs)
             IN /\ Len(stdout') = Len(stdout) + n + 1
                /\ SubSeq(stdout', 1, Len(stdout)) = stdout
                /\ stdout'[Len(stdout) + 1] = <<>>
                /\ \E l \in Orderings(RenderedPairs) :
                     /\ \A a, b \in 1..n : a < b => StrCmp(l[a][1], l[b][1]) # 1
                     /\ \A a \in 1..n :
                          stdout'[Len(stdout) + 1 + a] =
                            <<"[">> \o l[a][1] \o <<"]", ":", " ">> \o l[a][2]
        ELSE stdout' = stdout ]_vars

\* the number of rendered entries
RECURSIVE RenderedEntries(_)
RenderedEntries(k) ==
  IF k = 0 THEN 0
  ELSE RenderedEntries(k - 1) +
       (IF sections[k].key \in Range(section) THEN Len(sections[k].contents) ELSE 0)

\* the document is finished with short links: two definitions were printed
\* for three or more rendered entries, so two entries shared a pair
C7_Witness ==
  /\ pc = "done"
  /\ short_links
  /\ Cardinality(RenderedPairs) = 2
  /\ RenderedEntries(Len(sections)) >= 3
  /\ Len(stdout) >= 3
  /\ stdout[Len(stdout) - 2] = <<>>

\* C8: a fragment named by an id the catalog has is resolved at once, with no
\* prompt and no line read: the Link is the request's shorthand link and the
\* full link of merge request <id>.
C8_KnownIdNoPrompt ==
  [][ ( /\ pc = "read_dir"
        /\ file' # NoFile
        /\ ParseU64(file'.name) # None
        /\ InCatalog(ParseU64(file'.name)[1]) ) =>
        LET id == ParseU64(file'.name)[1]
            pr == CHOOSE r \in Range(pull_requests) : r.id = id
        IN /\ pc' = "parse"
           /\ typed' = 0
           /\ link' = [shorthand |-> pr.link, full |-> MergeRequestUrlOf(id)]
           /\ stderr' = Append(stderr, Say("processing", pr.link))
           /\ answers' = answers ]_vars

\* 07.md is being parsed with the Link of request 7, and nothing was typed
C8_Witness ==
  /\ pc = "parse"
  /\ file.name = <<"0", "7">>
  /\ typed = 0
  /\ link = [shorthand |-> <<"!", "7">>,
             full |-> MergeRequestsUrl \o <<"7">>]

\* the shorthand syntax of GitLab: "!" and then digits
IsShorthandSyntax(s) ==
  /\ Len(s) >= 2
  /\ s[1] = "!"
  /\ \A k \in 2..Len(s) : IsDigit(s[k])

\* C9: the string the link prompt returns is a shorthand (its id the text after
\* "!", no second prompt) only if it is "!" and then digits; any other string
\* is the full link, and the second prompt supplies the shorthand.
C9_ShorthandSyntax ==
  [][ /\ (pc = "ask_link" /\ pc' # "ask_link") =>
           IF IsShorthandSyntax(full_link')
           THEN /\ pc' = "parse"
                /\ link' = [shorthand |-> full_link',
                            full |-> MergeRequestsUrl \o Tail(full_link')]
           ELSE pc' = "ask_shorthand"
      /\ (pc = "ask_shorthand" /\ pc' # "ask_shorthand") =>
           /\ pc' = "parse"
           /\ link'.full = full_link
           /\ link'.shorthand # <<>> ]_vars

\* the node p of fragment f has been walked
Walked(f, p) ==
  /\ f.name \in Range(order)
  /\ f = file => (pc \in {"parse", "panicked"} /\ p < pos)

\* the heading a node of a fragment is under: the last one before it, 0 for none
HeadingOver(f, p) ==
  IF \E h \in 1..p : f.contents[h].kind = "Heading"
  THEN CHOOSE h \in 1..p :
         /\ f.contents[h].kind = "Heading"
         /\ \A g \in (h + 1)..p : f.contents[g].kind # "Heading"
  ELSE 0

\* C10: no two buckets have the same key; every walked list item that is under
\* a heading of its fragment is in the bucket whose key is that heading's
\* trimmed text, and in no other bucket: equal trimmed texts share a bucket,
\* texts that differ, be it by case only, do not.
C10_BucketIdentity ==
  /\ \A j, k \in 1..Len(sections) : j # k => sections[j].key # sections[k].key
  /\ \A f \in changelog_directory : \A p \in 1..Len(f.contents) :
       ( /\ f.contents[p].kind = "Item"
         /\ Walked(f, p)
         /\ HeadingOver(f, p) # 0 ) =>
         LET key == Trim(HeadingString(f.contents[HeadingOver(f, p)].children))
         IN \A k \in 1..Len(sections) :
              (sections[k].key = key) <=>
                (f.contents[p].markdown \in BucketItems(sections[k]))
  /\ \A f \in changelog_directory : \A p \in 1..Len(f.contents) :
       ( /\ f.contents[p].kind = "Item"
         /\ Walked(f, p)
         /\ HeadingOver(f, p) # 0 ) =>
         HasBucket(Trim(HeadingString(f.contents[HeadingOver(f, p)].children)))

\* "- a" under "Fixed" of 42.md and "- c" under " Fixed " of 99.md are in the
\* one bucket "Fixed", and "- f" under "fixed" of 42.md is in another
C10_Witness ==
  /\ HasBucket(StrFixed)
  /\ HasBucket(StrFixedLower)
  /\ {<<"-", " ", "a", "\n">>, <<"-", " ", "c", "\n">>}
       \subseteq BucketItems(sections[BucketOf(StrFixed)])
  /\ <<"-", " ", "f", "\n">> \in BucketItems(sections[BucketOf(StrFixedLower)])
  /\ <<"-", " ", "f", "\n">> \notin BucketItems(sections[BucketOf(StrFixed)])

\* the sections of the listed names that have a bucket, one blank line between
\* two of them and none before the first
RECURSIVE SeparatedSections(_, _)
SeparatedSections(names, first) ==
  IF names = <<>> THEN <<>>
  ELSE IF HasBucket(names[1])
       THEN LET b == sections[BucketOf(names[1])]
            IN (IF first THEN <<>> ELSE << <<>> >>)
                 \o <<HeadingLine(b.level, names[1])>>
                 \o [n \in 1..Len(b.contents) |-> EntryLine(format, b.contents[n])]
                 \o SeparatedSections(Tail(names), FALSE)
       ELSE SeparatedSections(Tail(names), first)

\* C11: when the loop over opts.section has ended, standard output holds the
\* rendered sections with exactly one blank line between two consecutive ones
\* and none before the first, also when listed names without a bucket were
\* skipped.
C11_OneSeparator ==
  (pc = "render" /\ i = Len(section)) =>
    stdout = SeparatedSections(section, TRUE)

\* main has ended with an error or a panic
Aborted(at) == at \in {"failed", "panicked"}

\* the node the walk is at is a heading with a child that is no text run
AtUnsupportedHeading ==
  /\ pc = "parse"
  /\ pos <= Len(file.contents)
  /\ file.contents[pos].kind = "Heading"
  /\ \E k \in 1..Len(file.contents[pos].children) :
       file.contents[pos].children[k].kind # "Text"

Guesses == SubSeq(stderr, 2, Len(stderr) - 1)

RECURSIVE Total(_)
Total(ns) == IF ns = <<>> THEN 0 ELSE ns[1] + Total(Tail(ns))

Contained(word, name) == Contains(ToLowercase(name), ToLowercase(word))

\* the score as a fraction <<sum, divisor>>: the sum over the words longer
\* than one character only
ScoreOfLongWords(pr, name) ==
  LET words == SplitAsciiWhitespace(pr.title)
  IN << Total([k \in 1..Len(words) |->
                 IF Len(words[k]) <= 1 THEN 0
                 ELSE IF Contained(words[k], name) THEN 10 * Len(pr.title)
                 ELSE EditDistance(pr.title, name)]),
        IF Len(words) = 0 THEN 1 ELSE Len(pr.title) >>

\* the score as a fraction: the sum over all words, a word of one character
\* counting as a word that is not contained
ScoreOfAllWords(pr, name) ==
  LET words == SplitAsciiWhitespace(pr.title)
  IN << Total([k \in 1..Len(words) |->
                 IF Len(words[k]) > 1 /\ Contained(words[k], name)
                 THEN 10 * Len(pr.title)
                 ELSE EditDistance(pr.title, name)]),
        IF Len(words) = 0 THEN 1 ELSE Len(pr.title) >>

\* request j is listed before request k: a higher score, or the same score and
\* an earlier place in the catalog
Precedes(scores, j, k) ==
  \/ scores[j][1] * scores[k][2] > scores[k][1] * scores[j][2]
  \/ /\ scores[j][1] * scores[k][2] = scores[k][1] * scores[j][2]
     /\ j < k

Rank(scores, k) ==
  Cardinality({j \in 1..Len(scores) : Precedes(scores, j, k)})

\* nothing for an empty catalog, else the help line and the min(5, n) requests
\* of the first ranks, in the order of their ranks
RankedGuesses(scores) ==
  LET n == IF Len(scores) < 5 THEN Len(scores) ELSE 5
  IN IF scores = <<>> THEN <<>>
     ELSE <<Say("help", <<>>)>> \o
          [p \in 1..n |->
             LET pr == pull_requests[CHOOSE k \in 1..Len(scores) :
                                       Rank(scores, k) = p - 1]
             IN Say("guess", pr.link \o <<":", " ">> \o pr.title)]

\* C13 (as stated): the guesser returns nothing for an empty catalog, else the
\* min(5, n) requests of highest score, in descending order of score and ties
\* in catalog order, the score summing over the words longer than one
\* character only.
C13_GuessByLongWords ==
  pc = "ask_link" =>
    Guesses = RankedGuesses([k \in 1..Len(pull_requests) |->
                               ScoreOfLongWords(pull_requests[k], file.name)])

\* C13 (amended): the same, the score summing over every word of the title: a
\* word of one character contributes the edit distance, as a word that is not
\* contained does.
C13_GuessByAllWords ==
  pc = "ask_link" =>
    Guesses = RankedGuesses([k \in 1..Len(pull_requests) |->
                               ScoreOfAllWords(pull_requests[k], file.name)])

\* a catalog of more than five requests, two of them of the same title and one
\* with a word of one character, has been guessed from
C13_Witness ==
  /\ pc = "ask_link"
  /\ Len(pull_requests) > 5
  /\ Len(Guesses) = 6
  /\ pull_requests[1].title = pull_requests[3].title
  /\ pull_requests[2].title = <<"A", "d", "d", " ", "x">>
  /\ pull_requests[4].title = <<" ">>
  /\ file.name = <<"f", "i", "x">>

(***************************************************************************)
(* The shorthands of the appendix.                                         *)
(***************************************************************************)
\* the pairs whose definition "[shorthand]: full" is a line of the appendix
DefinedPairs ==
  {p \in RenderedPairs :
     \E n \in 1..Len(stdout) :
       /\ stdout[n] = <<"[">> \o p[1] \o <<"]", ":", " ">> \o p[2]
       /\ \E b \in 1..(n - 1) : stdout[b] = <<>> /\ \A a \in b..(n - 1) : ~IsSectionLine(stdout[a])}

\* C14: in the appendix no two definitions give the same shorthand different
\* full links, whatever the fragments and the answers of the operator.
C14_ShorthandDefinedOnce ==
  pc = "done" =>
    \A p, q \in DefinedPairs : p[1] = q[1] => p[2] = q[2]

====
